---- MODULE Spec2Model ----
(***************************************************************************)
(* simple-agent.py: a script that loads the environment, builds an         *)
(* OpenAI-backed FunctionAgent over the two tools multiply and add, runs   *)
(* it once on the hard-coded question "What is 20+(2*4)?" and prints the   *)
(* response.                                                               *)
(*                                                                         *)
(* The script's own code is modelled step by step.  The language model     *)
(* and the agent library are the environment: every response the model     *)
(* may give is a nondeterministic choice, and whatever the script leaves   *)
(* to the library (a missing credential, an unregistered tool name, a      *)
(* failing request) is a nondeterministic choice over the outcomes.        *)
(* Numbers are integers of a bounded range, on which Python's + and * are  *)
(* exact.                                                                  *)
(***************************************************************************)
EXTENDS Integers, Sequences, FiniteSets

\* pc: the statement the script is at; credential: whether the API key is in
\* the environment; tools: the agent's registered tool names; transcript: the
\* messages of the run; requests: the requests the language model has
\* answered; response: what workflow.run returned; stdout: what was printed.
VARIABLES pc, credential, tools, transcript, requests, response, stdout

vars == <<pc, credential, tools, transcript, requests, response, stdout>>

\* Largest number of responses of the language model followed in one run.
MaxTurns == 3

\* Largest magnitude of a number the language model passes to a tool.
MaxArg == 20

\* The numbers the language model may take from the question or invent.
Literals == {2, 4, 20}

\* A tool name the language model may invent although no tool has it.
UnknownTool == "divide"

NoResponse == "none"

user_msg == "What is 20+(2*4)?"

----------------------------------------------------------------------------
(* The tools *)

multiply_sum(a, b) == a + b

multiply(a, b) == a * b

add_diff(a, b) == a - b

add(a, b) == a + b

\* tools=[multiply, add]: each tool is registered under its function's name.
Registry == <<"multiply", "add">>

ToolNames(reg) == {reg[i] : i \in 1..Len(reg)}

\* The callable registered under a name, applied to the call's arguments.
CallTool(name, a, b) ==
    IF name = "multiply" THEN multiply(a, b) ELSE add(a, b)

----------------------------------------------------------------------------
(* Turns of the transcript *)

UserMessage(t) ==
    [kind |-> "UserMessage", text |-> t, tool |-> "", a |-> 0, b |-> 0, value |-> 0]

AssistantToolCall(n, x, y) ==
    [kind |-> "AssistantToolCall", text |-> "", tool |-> n, a |-> x, b |-> y, value |-> 0]

ToolResult(n, v) ==
    [kind |-> "ToolResult", text |-> "", tool |-> n, a |-> 0, b |-> 0, value |-> v]

AssistantText(v) ==
    [kind |-> "AssistantText", text |-> "", tool |-> "", a |-> 0, b |-> 0, value |-> v]

Last(s) == s[Len(s)]

\* The values of the tool results in the transcript.
Results(tr) ==
    {tr[i].value : i \in {j \in 1..Len(tr) : tr[j].kind = "ToolResult"}}

\* The numbers the language model may state: those of the question, or
\* invented, and the tool results it has been shown.
Stated(tr) == Literals \cup Results(tr)

\* The numbers the language model may pass to a tool.
Args(tr) == {v \in Stated(tr) : -MaxArg <= v /\ v <= MaxArg}

----------------------------------------------------------------------------
(* The script *)

Init ==
    /\ pc = "load_dotenv"
    /\ credential \in BOOLEAN
    /\ tools = <<>>
    /\ transcript = <<>>
    /\ requests = 0
    /\ response = NoResponse
    /\ stdout = <<>>

\* load_dotenv(): a .env file may add the credential to the environment; it
\* never removes one.
LoadDotenv ==
    /\ pc = "load_dotenv"
    /\ \E inDotenv \in BOOLEAN : credential' = (credential \/ inDotenv)
    /\ pc' = "llm"
    /\ UNCHANGED <<tools, transcript, requests, response, stdout>>

\* llm = OpenAI(model="gpt-4.1-nano"): the script does not look at the
\* credential itself; with none, the library either raises here or later.
ConstructLLM ==
    /\ pc = "llm"
    /\ \/ pc' = "workflow"
       \/ ~credential /\ pc' = "raised"
    /\ UNCHANGED <<credential, tools, transcript, requests, response, stdout>>

\* workflow = FunctionAgent(tools=[multiply, add], llm=llm, system_prompt=...)
ConstructWorkflow ==
    /\ pc = "workflow"
    /\ tools' = Registry
    /\ pc' = "main"
    /\ UNCHANGED <<credential, transcript, requests, response, stdout>>

\* asyncio.run(main()): workflow.run(user_msg="What is 20+(2*4)?") starts.
StartRun ==
    /\ pc = "main"
    /\ transcript' = <<UserMessage(user_msg)>>
    /\ pc' = "await"
    /\ UNCHANGED <<credential, tools, requests, response, stdout>>

\* The language model answers a request with a tool call.
LLMToolCall ==
    /\ pc = "await"
    /\ credential
    /\ requests < MaxTurns
    /\ \E n \in ToolNames(tools) \cup {UnknownTool} :
       \E x \in Args(transcript) :
       \E y \in Args(transcript) :
          transcript' = Append(transcript, AssistantToolCall(n, x, y))
    /\ requests' = requests + 1
    /\ pc' = "tool"
    /\ UNCHANGED <<credential, tools, response, stdout>>

\* The language model answers a request with plain text, which workflow.run
\* returns; the text is modelled by the number it states.
LLMText ==
    /\ pc = "await"
    /\ credential
    /\ requests < MaxTurns
    /\ \E v \in Stated(transcript) :
          /\ transcript' = Append(transcript, AssistantText(v))
          /\ response' = v
    /\ requests' = requests + 1
    /\ pc' = "print"
    /\ UNCHANGED <<credential, tools, stdout>>

\* The agent runs the requested tool.  A registered tool is called with the
\* call's arguments and its return value is recorded; what happens to a name
\* that is not registered is the library's choice.
InvokeTool ==
    /\ pc = "tool"
    /\ LET call == Last(transcript) IN
       \/ /\ call.tool \in ToolNames(tools)
          /\ transcript' = Append(transcript,
                                  ToolResult(call.tool, CallTool(call.tool, call.a, call.b)))
          /\ pc' = "await"
       \/ /\ call.tool \notin ToolNames(tools)
          /\ transcript' = transcript
          /\ pc' \in {"await", "raised"}
    /\ UNCHANGED <<credential, tools, requests, response, stdout>>

\* await workflow.run(...) raises (no credential, a failed request, a limit
\* of the library): main has no handler, so nothing is printed.
RunRaises ==
    /\ pc = "await"
    /\ pc' = "raised"
    /\ UNCHANGED <<credential, tools, transcript, requests, response, stdout>>

\* print(response)
PrintResponse ==
    /\ pc = "print"
    /\ stdout' = Append(stdout, response)
    /\ pc' = "done"
    /\ UNCHANGED <<credential, tools, transcript, requests, response>>

Next ==
    \/ LoadDotenv
    \/ ConstructLLM
    \/ ConstructWorkflow
    \/ StartRun
    \/ LLMToolCall
    \/ LLMText
    \/ InvokeTool
    \/ RunRaises
    \/ PrintResponse

Spec == Init /\ [][Next]_vars

----------------------------------------------------------------------------
(* Properties *)

\* C1: whenever the transcript ends in a tool call for a registered tool
\* (multiply or add) with arguments (a, b), the next turn appended is a
\* ToolResult for the same tool whose value is a*b for multiply and a+b for
\* add.
ToolResultIsArithmetic ==
    [][ (/\ pc = "tool"
         /\ Last(transcript).kind = "AssistantToolCall"
         /\ Last(transcript).tool \in {"multiply", "add"})
        => LET call == Last(transcript) IN
           /\ Len(transcript') = Len(transcript) + 1
           /\ SubSeq(transcript', 1, Len(transcript)) = transcript
           /\ Last(transcript').kind = "ToolResult"
           /\ Last(transcript').tool = call.tool
           /\ call.tool = "add" => Last(transcript').value = call.a + call.b
           /\ call.tool = "multiply" => Last(transcript').value = call.a * call.b
      ]_vars

\* C1 witness: a transcript holding the answered call of each tool, on
\* arguments whose sum and product differ.
BothToolsAnswered ==
    /\ \E i \in 2..Len(transcript) :
          /\ transcript[i].kind = "ToolResult"
          /\ transcript[i - 1].tool = "add"
          /\ transcript[i - 1].a + transcript[i - 1].b # transcript[i - 1].a * transcript[i - 1].b
          /\ transcript[i - 1].a - transcript[i - 1].b # transcript[i - 1].a + transcript[i - 1].b
    /\ \E i \in 2..Len(transcript) :
          /\ transcript[i].kind = "ToolResult"
          /\ transcript[i - 1].tool = "multiply"
          /\ transcript[i - 1].a + transcript[i - 1].b # transcript[i - 1].a * transcript[i - 1].b

\* The run of C7: multiply(2, 4), then add(20, <the multiply result>), then
\* a final answer stating the last tool result.
WorkedExampleRun ==
    /\ Len(transcript) = 6
    /\ transcript[1] = UserMessage("What is 20+(2*4)?")
    /\ transcript[2] = AssistantToolCall("multiply", 2, 4)
    /\ transcript[3].kind = "ToolResult"
    /\ transcript[4] = AssistantToolCall("add", 20, transcript[3].value)
    /\ transcript[5].kind = "ToolResult"
    /\ transcript[6] = AssistantText(transcript[5].value)

\* C7: a run on "What is 20+(2*4)?" in which the model requests
\* multiply(2, 4), then add(20, <the multiply result>), then answers with the
\* last tool result, ends with the final answer 28, and 28 is what the
\* program has written to standard output.
WorkedExamplePrints28 ==
    (WorkedExampleRun /\ pc = "done") => (response = 28 /\ stdout = <<28>>)

\* C7 witness: that run, ended.
WorkedExampleDone ==
    WorkedExampleRun /\ pc = "done"

====
